---- MODULE Spec2Model ----
(***************************************************************************)
(* State-machine model of the e-voting backend (FastAPI + SQLAlchemy).     *)
(*                                                                         *)
(* The state is the content of the database tables that the vote, the      *)
(* election hierarchy and the role gate depend on, the vote-cast requests  *)
(* that have passed their checks but not yet committed, and the answers    *)
(* given to those that have.  Every other endpoint is                      *)
(* an operator X_response giving the answer of the handler to a request in *)
(* the current state, and an action X making the handler's writes; a       *)
(* request that fails before it writes leaves the state as it is.          *)
(* cast_vote is two steps, its reads and its commit, so that two requests  *)
(* can interleave between them.                                            *)
(*                                                                         *)
(* Columns that no handler reads in a condition (titles, descriptions,     *)
(* biographies, image urls, dates of birth) are not part of the state.     *)
(* Tokens are modelled by the id of the user their subject resolves to;    *)
(* 0 is a missing or invalid token.  None is 0 for ids and dates, NoState  *)
(* for a state and "None" for an optional string or boolean.               *)
(*                                                                         *)
(* Spec follows every endpoint that writes the election data, each request *)
(* as one step except cast_vote.  SpecAccounts follows the writes to the   *)
(* users table as two steps each (the handler's checks, then its commit),  *)
(* SpecAuth the login and the password reset, SpecOtp the calls of the OTP *)
(* service, and SpecResults applies the results aggregation to the tables  *)
(* it can meet.  SpecGate is Spec started with the second account in every *)
(* role, active or deactivated.                                            *)
(***************************************************************************)
EXTENDS Integers, Sequences, FiniteSets, TLC

\* ------------------------------------------------------------------ bounds
\* number of requests that change the state (a commit, or a vote request
\* that passes its checks) followed from the initial state
MaxOps == 2
\* number of cast_vote requests that may be between their checks and commit
MaxInflight == 2
\* number of account requests followed from the initial state in SpecAccounts
MaxAccountOps == 2
\* number of password-reset requests followed in SpecAuth
MaxAuthOps == 3
\* number of rows of the votes table that SpecResults starts from
MaxVotes == 3

\* ------------------------------------------------------------- enumerations
USER == "user"
ADMIN == "admin"
SUPER_ADMIN == "super_admin"
UserRole == {USER, ADMIN, SUPER_ADMIN}

\* two of the 37 members of State are enough to tell "same" from "other"
LAGOS == "Lagos"
FCT == "Federal Capital Territory"
State == {LAGOS, FCT}
NoState == "None"

ET_FEDERAL == "federal"
ET_STATE == "state"
ET_LOCAL == "local"
ElectionType == {ET_FEDERAL, ET_STATE, ET_LOCAL}

\* the values of the unique columns users.email and users.nin in use
Emails == {"e1", "e2", "e3"}
Nins == {"n1", "n2", "n3"}

Passwords == {"pw1", "pw2"}

\* two instants are enough to order a start and an end; 0 is no date
Dates == {1, 2}
NoDate == 0

\* ------------------------------------------------------------------- state
VARIABLES
    users,          \* id -> [role, is_active, state_of_residence, email, nin,
                    \*        hashed_password]
    elections,      \* id -> [election_type, state, is_active, start_date, end_date]
    positions,      \* id -> [election_id]
    candidates,     \* id -> [position_id, party_id]
    parties,        \* set of political party ids
    votes,          \* the votes table in insertion order: vote id i is votes[i]
    next_id,        \* [users, elections, positions, parties] -> next primary key
    fk_enforced,    \* does the database enforce FOREIGN KEY constraints
    pending,        \* the cast_vote requests between their checks and their commit
    answered,       \* the answers to the cast_vote requests that reached the insert
    otps,           \* the otps table in insertion order
    inflight,       \* the account requests between their checks and their commit
    ops             \* state-changing requests so far

db == <<users, elections, positions, candidates, parties, votes, next_id>>
vars == <<users, elections, positions, candidates, parties, votes, next_id,
          fk_enforced, pending, answered, otps, inflight, ops>>

\* ----------------------------------------------------------------- responses
\* an answer: the HTTP status code, whether the body is the StandardResponse
\* envelope, and the envelope's status and error
Response(code, envelope, status, error) ==
    [code |-> code, envelope |-> envelope, status |-> status, error |-> error]

NoError == "null"

\* StandardResponse(status=True, data=..., error=None)
Success == Response(200, TRUE, TRUE, NoError)

\* StandardResponse(status=False, data=None, error=error)
Failure(error) == Response(200, TRUE, FALSE, error)

\* raise HTTPException(status_code=code, detail=detail): the body is {"detail": ...}
HTTPException(code, detail) == Response(code, FALSE, FALSE, detail)

AttributeError == "type object 'Candidate' has no attribute 'user_id'"
UniqueViolation == "IntegrityError: UNIQUE constraint failed: votes.user_id, votes.election_id"
ForeignKeyViolation == "IntegrityError: FOREIGN KEY constraint failed"
NotNullViolation == "IntegrityError: NOT NULL constraint failed: votes.candidate_id"
ValidationError == "ValidationError: 1 validation error for UserResponse"

\* db.commit() of a change to the modelled tables
Committed == ops' = ops + 1 /\ UNCHANGED <<fk_enforced, pending, answered, otps, inflight>>

\* ------------------------------------------------------------------ role gate
\* a super admin gate that lets an admin through (C10 depends on the gate)
admin_is_enough(role) == role \in {ADMIN, SUPER_ADMIN}

\* an admin gate that does not look at the stored role (C24 depends on the
\* gate reading it)
no_role_check(role) == TRUE

has_admin_role(role) == role \in {ADMIN, SUPER_ADMIN}

has_super_admin_role(role) == role = SUPER_ADMIN

\* the dependencies: Success passes (the caller is then users[tok]), anything
\* else is the HTTP error raised.  AuthService.get_current_user:
get_current_user(tok) ==
    IF tok = 0 THEN HTTPException(401, "Invalid authentication credentials")
    ELSE IF tok \notin DOMAIN users THEN HTTPException(401, "User not found")
    ELSE Success

get_current_active_user(tok) ==
    IF get_current_user(tok) # Success THEN get_current_user(tok)
    ELSE IF ~users[tok].is_active THEN HTTPException(400, "Inactive user")
    ELSE Success

get_current_admin(tok) ==
    IF get_current_user(tok) # Success THEN get_current_user(tok)
    ELSE IF ~has_admin_role(users[tok].role)
    THEN HTTPException(403, "Insufficient permissions. Admin access required.")
    ELSE Success

get_current_super_admin(tok) ==
    IF get_current_user(tok) # Success THEN get_current_user(tok)
    ELSE IF ~has_super_admin_role(users[tok].role)
    THEN HTTPException(403, "Insufficient permissions. Super Admin access required.")
    ELSE Success

\* ------------------------------------------------------------ table queries
Remove(f, ids) == [k \in DOMAIN f \ ids |-> f[k]]

Put(f, k, v) == [x \in DOMAIN f \cup {k} |-> IF x = k THEN v ELSE f[x]]

VoteIds == 1..Len(votes)

\* db.query(Vote).filter(user_id == u, election_id == e).first() is not None
existing_vote(u, e) ==
    \E i \in VoteIds : votes[i].user_id = u /\ votes[i].election_id = e

\* db.query(Vote).filter(Vote.candidate_id == c).count()
votes_for_candidate(c) == Cardinality({i \in VoteIds : votes[i].candidate_id = c})

\* db.query(Vote).filter(Vote.election_id == e).count()
votes_in_election(e) == Cardinality({i \in VoteIds : votes[i].election_id = e})

\* an election lookup that leaves out is_active == True (C7 depends on it)
any_election(e) == e \in DOMAIN elections

\* db.query(Election).filter(id == e, is_active == True).first() is not None
active_election(e) == e \in DOMAIN elections /\ elections[e].is_active

\* db.query(Candidate).join(Position).filter(Candidate.id == c,
\*                                          Position.election_id == e).first()
candidate_in_election(c, e) ==
    /\ c \in DOMAIN candidates
    /\ candidates[c].position_id \in DOMAIN positions
    /\ positions[candidates[c].position_id].election_id = e

\* the state-eligibility check of cast_vote: TRUE when the voter may vote
state_eligible(u, e) ==
    IF elections[e].election_type # ET_FEDERAL /\ elections[e].state # NoState
    THEN users[u].state_of_residence = elections[e].state
    ELSE TRUE

\* a votes table without the constraint (C1 depends on the constraint)
no_unique_constraint(v) == TRUE

\* UniqueConstraint('user_id', 'election_id'): may row v be inserted
unique_user_election(v) == ~existing_vote(v.user_id, v.election_id)

\* the votes table's three foreign keys, where the database enforces them
vote_foreign_keys(v) ==
    fk_enforced =>
        /\ v.user_id \in DOMAIN users
        /\ v.candidate_id \in DOMAIN candidates
        /\ v.election_id \in DOMAIN elections

\* f"Only residents of {election.state.value} can vote in this election"
residents_only(e) ==
    "Only residents of " \o elections[e].state \o " can vote in this election"

Vote(u, c, e) == [user_id |-> u, candidate_id |-> c, election_id |-> e]

\* ------------------------------------------------------------------ cast_vote
\* the checks with the existing vote looked up before the election (C6 depends
\* on the order of the two)
cast_vote_checks_vote_first(tok, election_id, candidate_id) ==
    IF get_current_active_user(tok) # Success THEN get_current_active_user(tok)
    ELSE IF existing_vote(tok, election_id)
    THEN Failure("You have already voted in this election")
    ELSE IF ~active_election(election_id)
    THEN Failure("Election not found or not active")
    ELSE IF ~candidate_in_election(candidate_id, election_id)
    THEN Failure("Candidate not found in this election")
    ELSE IF ~state_eligible(tok, election_id)
    THEN Failure(residents_only(election_id))
    ELSE Success

\* the handler up to db.add(vote): the dependency and the four checks;
\* Success means the handler goes on to the insert
cast_vote_checks(tok, election_id, candidate_id) ==
    IF get_current_active_user(tok) # Success THEN get_current_active_user(tok)
    ELSE IF ~active_election(election_id)
    THEN Failure("Election not found or not active")
    ELSE IF existing_vote(tok, election_id)
    THEN Failure("You have already voted in this election")
    ELSE IF ~candidate_in_election(candidate_id, election_id)
    THEN Failure("Candidate not found in this election")
    ELSE IF ~state_eligible(tok, election_id)
    THEN Failure(residents_only(election_id))
    ELSE Success

\* db.add(vote); db.commit(): the constraints of the votes table decide
cast_vote_commit_response(v) ==
    IF ~unique_user_election(v) THEN Failure(UniqueViolation)
    ELSE IF ~vote_foreign_keys(v) THEN Failure(ForeignKeyViolation)
    ELSE Success

\* a request in flight: rid tells two requests with the same input apart
VoteRequest(rid, tok, election_id, candidate_id) ==
    [rid |-> rid, tok |-> tok, election_id |-> election_id, candidate_id |-> candidate_id]

\* a row that carries the candidate's id for the caller's (C4 depends on the
\* row's fields)
new_vote_swapped(r) == Vote(r.candidate_id, r.tok, r.election_id)

\* Vote(user_id=current_user.id, candidate_id=vote_data.candidate_id,
\*      election_id=election_id)
new_vote(r) == Vote(r.tok, r.candidate_id, r.election_id)

\* the handler from its dependency to db.add(vote): a request that passes is
\* about to insert, any other is answered with no write
cast_vote_begin(tok, election_id, candidate_id) ==
    IF cast_vote_checks(tok, election_id, candidate_id) = Success
    THEN /\ Cardinality(pending) < MaxInflight
         /\ ops' = ops + 1
         /\ pending' = pending \cup {VoteRequest(ops + 1, tok, election_id, candidate_id)}
         /\ UNCHANGED <<db, fk_enforced, answered, otps, inflight>>
    ELSE UNCHANGED vars

\* a commit whose failure leaves the row in the table (C2 depends on the
\* rollback)
cast_vote_commit_no_rollback(r) ==
    /\ r \in pending
    /\ pending' = pending \ {r}
    /\ answered' = answered \cup
           {[request |-> r, response |-> cast_vote_commit_response(new_vote(r))]}
    /\ votes' = Append(votes, new_vote(r))
    /\ UNCHANGED <<users, elections, positions, candidates, parties,
                   next_id, fk_enforced, otps, inflight, ops>>

\* db.commit(): the insert commits, or the exception handler rolls it back
cast_vote_commit(r) ==
    /\ r \in pending
    /\ pending' = pending \ {r}
    /\ answered' = answered \cup
           {[request |-> r, response |-> cast_vote_commit_response(new_vote(r))]}
    /\ IF cast_vote_commit_response(new_vote(r)) = Success
       THEN /\ votes' = Append(votes, new_vote(r))
            /\ UNCHANGED <<users, elections, positions, candidates, parties,
                           next_id, fk_enforced, otps, inflight, ops>>
       ELSE UNCHANGED <<db, fk_enforced, otps, inflight, ops>>

\* ------------------------------------------------------------ request inputs
\* a token of every account ever created (its row may be gone) and 0, a token
\* that does not verify; every key in use and 0: None where a parameter is
\* optional, and otherwise a key that resolves to no row
Tokens == 0..(next_id.users - 1)
UserIds == DOMAIN users \cup {0}
ElectionIds == DOMAIN elections \cup {0}
PositionIds == DOMAIN positions \cup {0}
CandidateIds == DOMAIN candidates \cup {0}
PartyIds == parties \cup {0}

\* the optional form fields of the update endpoints: a request gives one of
\* its fields (the handlers apply each given field on its own)
ProfileUpdates ==
    {[nin |-> "None", email |-> "None", state_of_residence |-> st, is_active |-> "None"] :
        st \in State}
    \cup {[nin |-> "None", email |-> "None", state_of_residence |-> NoState, is_active |-> a] :
             a \in {"True", "False"}}

\* requests that give a NIN or an email
IdentityUpdates ==
    {[nin |-> n, email |-> "None", state_of_residence |-> NoState, is_active |-> "None"] :
        n \in Nins}
    \cup {[nin |-> "None", email |-> m, state_of_residence |-> NoState, is_active |-> "None"] :
             m \in Emails}

\* requests whose NIN field holds a string that is not eleven digits (the
\* form fields of update_user_profile are plain strings): here an email address
UnvalidatedUpdates ==
    {[nin |-> m, email |-> "None", state_of_residence |-> NoState, is_active |-> "None"] :
        m \in Emails}

\* requests that give several fields, a later one of which the handler refuses
\* after it has assigned the earlier ones
ProfileUpdatesRefusedLate ==
    {[nin |-> "n3", email |-> m, state_of_residence |-> NoState, is_active |-> "None"] :
        m \in Emails}
    \cup {[nin |-> "n3", email |-> "e3", state_of_residence |-> LAGOS, is_active |-> "False"]}

ElectionUpdates ==
    {[election_type |-> t, state |-> NoState, is_active |-> "None",
      start_date |-> NoDate, end_date |-> NoDate] : t \in ElectionType}
    \cup {[election_type |-> "None", state |-> st, is_active |-> "None",
           start_date |-> NoDate, end_date |-> NoDate] : st \in State}
    \cup {[election_type |-> "None", state |-> NoState, is_active |-> a,
           start_date |-> NoDate, end_date |-> NoDate] : a \in {"True", "False"}}
    \cup {[election_type |-> "None", state |-> NoState, is_active |-> "None",
           start_date |-> d, end_date |-> NoDate] : d \in Dates}
    \cup {[election_type |-> "None", state |-> NoState, is_active |-> "None",
           start_date |-> NoDate, end_date |-> d] : d \in Dates}

\* requests that give several fields and dates that the handler refuses after
\* it has assigned them all
ElectionUpdatesRefusedLate ==
    {[election_type |-> ET_LOCAL, state |-> FCT, is_active |-> "False",
      start_date |-> 2, end_date |-> d] : d \in Dates}

\* the dates of a new election: in order, out of order
ElectionDates == {<<1, 2>>, <<2, 1>>}

CandidateUpdates ==
    {[party_id |-> p, position_id |-> 0] : p \in PartyIds \ {0}}
    \cup {[party_id |-> 0, position_id |-> q] : q \in PositionIds \ {0}}
    \cup {[party_id |-> next_id.parties, position_id |-> 0],
          [party_id |-> 0, position_id |-> next_id.positions]}

\* requests that give a party that exists and a position that does not: the
\* handler refuses the position after it has assigned the party
CandidateUpdatesRefusedLate ==
    {[party_id |-> p, position_id |-> next_id.positions] : p \in PartyIds \ {0}}

\* ------------------------------------------------------------------ accounts
\* core/security.py get_password_hash: the SHA-256 of the password and a
\* fixed pepper, a function of the password alone
get_password_hash(password) == "sha256(" \o password \o "evoting-pepper-2024)"

User(role, is_active, state_of_residence, email, nin, hashed_password) ==
    [role |-> role, is_active |-> is_active, state_of_residence |-> state_of_residence,
     email |-> email, nin |-> nin, hashed_password |-> hashed_password]

\* db.query(User).filter((User.email == email) | (User.nin == nin)).first():
\* the id of the row, 0 when there is none
existing_user(email, nin) ==
    IF \E u \in DOMAIN users : users[u].email = email \/ users[u].nin = nin
    THEN CHOOSE u \in DOMAIN users :
             /\ users[u].email = email \/ users[u].nin = nin
             /\ \A w \in DOMAIN users :
                    (users[w].email = email \/ users[w].nin = nin) => u <= w
    ELSE 0

\* routes/auth.py register_user with AuthService.create_user: the HTTPException
\* of create_user is caught by the route and answered in the envelope
register_user_response(role, state_of_residence, email, nin, password) ==
    IF existing_user(email, nin) = 0 THEN Success
    ELSE IF users[existing_user(email, nin)].email = email
    THEN Failure("Email already registered")
    ELSE Failure("NIN already registered")

\* the role of the new row is the role of the request body
register_user(role, state_of_residence, email, nin, password) ==
    IF register_user_response(role, state_of_residence, email, nin, password) = Success
    THEN /\ Committed
         /\ users' = Put(users, next_id.users,
                         User(role, TRUE, state_of_residence, email, nin,
                              get_password_hash(password)))
         /\ next_id' = [next_id EXCEPT !.users = @ + 1]
         /\ UNCHANGED <<elections, positions, candidates, parties, votes>>
    ELSE UNCHANGED vars

\* db.query(User).filter(User.nin == nin, User.id != user_id).first() is not None
nin_of_another(nin, user_id) ==
    \E u \in DOMAIN users : u # user_id /\ users[u].nin = nin

\* db.query(User).filter(User.email == email, User.id != user_id).first() is not None
email_of_another(email, user_id) ==
    \E u \in DOMAIN users : u # user_id /\ users[u].email = email

\* the fields are handled in the order nin, email, state_of_residence,
\* is_active; a field that is refused returns before db.commit(), and the
\* assignments made for the earlier fields go with the session
update_user_profile_checks(tok, user_id, nin, email, state_of_residence, is_active) ==
    IF get_current_admin(tok) # Success THEN get_current_admin(tok)
    ELSE IF user_id \notin DOMAIN users THEN Failure("User not found")
    ELSE IF nin # "None" /\ nin_of_another(nin, user_id)
    THEN Failure("NIN already exists")
    ELSE IF email # "None" /\ email_of_another(email, user_id)
    THEN Failure("Email already exists")
    ELSE IF is_active = "False" /\ user_id = tok
    THEN Failure("Cannot deactivate your own account")
    ELSE Success

\* the columns of row that a request with these fields assigns
profile_assigned(row, nin, email, state_of_residence, is_active) ==
    [row EXCEPT !.nin = IF nin # "None" THEN nin ELSE @,
                !.email = IF email # "None" THEN email ELSE @,
                !.state_of_residence =
                    IF state_of_residence # NoState THEN state_of_residence ELSE @,
                !.is_active = IF is_active # "None" THEN is_active = "True" ELSE @]

\* UserResponse.model_validate(user): the validators of UserBase run on the
\* stored row, nin_length (eleven digits) and EmailStr among them; the values
\* of Nins and of Emails are such NINs and such addresses
valid_user_response(row) == row.nin \in Nins /\ row.email \in Emails

\* the answer is built from the row after db.commit(): a row that UserResponse
\* refuses is stored and the request answered with a failure
update_user_profile_response(tok, user_id, nin, email, state_of_residence, is_active) ==
    IF update_user_profile_checks(tok, user_id, nin, email, state_of_residence,
                                  is_active) # Success
    THEN update_user_profile_checks(tok, user_id, nin, email, state_of_residence, is_active)
    ELSE IF ~valid_user_response(profile_assigned(users[user_id], nin, email,
                                                  state_of_residence, is_active))
    THEN Failure(ValidationError)
    ELSE Success

update_user_profile(tok, user_id, nin, email, state_of_residence, is_active) ==
    IF update_user_profile_checks(tok, user_id, nin, email, state_of_residence,
                                  is_active) = Success
    THEN /\ Committed
         /\ users' = [users EXCEPT ![user_id] =
                profile_assigned(@, nin, email, state_of_residence, is_active)]
         /\ UNCHANGED <<elections, positions, candidates, parties, votes, next_id>>
    ELSE UNCHANGED vars

update_user_role_response(tok, user_id, new_role) ==
    IF get_current_super_admin(tok) # Success THEN get_current_super_admin(tok)
    ELSE IF user_id = tok THEN Failure("Cannot modify your own role")
    ELSE IF user_id \notin DOMAIN users THEN Failure("User not found")
    ELSE Success

update_user_role(tok, user_id, new_role) ==
    IF update_user_role_response(tok, user_id, new_role) = Success
    THEN /\ Committed
         /\ users' = [users EXCEPT ![user_id].role = new_role]
         /\ UNCHANGED <<elections, positions, candidates, parties, votes, next_id>>
    ELSE UNCHANGED vars

\* an update_user_status without the check of the caller's own id (C11
\* depends on the check)
update_user_status_unguarded(tok, user_id, is_active) ==
    IF get_current_admin(tok) # Success THEN get_current_admin(tok)
    ELSE IF user_id \notin DOMAIN users THEN Failure("User not found")
    ELSE Success

update_user_status_response(tok, user_id, is_active) ==
    IF get_current_admin(tok) # Success THEN get_current_admin(tok)
    ELSE IF user_id = tok /\ ~is_active
    THEN Failure("Cannot deactivate your own account")
    ELSE IF user_id \notin DOMAIN users THEN Failure("User not found")
    ELSE Success

update_user_status(tok, user_id, is_active) ==
    IF update_user_status_response(tok, user_id, is_active) = Success
    THEN /\ Committed
         /\ users' = [users EXCEPT ![user_id].is_active = is_active]
         /\ UNCHANGED <<elections, positions, candidates, parties, votes, next_id>>
    ELSE UNCHANGED vars

\* User has no relationship to Vote: the DELETE is stopped only by the
\* database's foreign key votes.user_id, where it is enforced
delete_user_response(tok, user_id) ==
    IF get_current_super_admin(tok) # Success THEN get_current_super_admin(tok)
    ELSE IF user_id = tok THEN Failure("Cannot delete your own account")
    ELSE IF user_id \notin DOMAIN users THEN Failure("User not found")
    ELSE IF fk_enforced /\ \E i \in VoteIds : votes[i].user_id = user_id
    THEN Failure(ForeignKeyViolation)
    ELSE Success

\* a delete_user that takes the user's votes with it (C8 depends on there
\* being no such cascade)
delete_user_cascade(tok, user_id) ==
    IF delete_user_response(tok, user_id) = Success
    THEN /\ Committed
         /\ users' = Remove(users, {user_id})
         /\ votes' = SelectSeq(votes, LAMBDA v : v.user_id # user_id)
         /\ UNCHANGED <<elections, positions, candidates, parties, next_id>>
    ELSE UNCHANGED vars

delete_user(tok, user_id) ==
    IF delete_user_response(tok, user_id) = Success
    THEN /\ Committed
         /\ users' = Remove(users, {user_id})
         /\ UNCHANGED <<elections, positions, candidates, parties, votes, next_id>>
    ELSE UNCHANGED vars

\* the admin-gated endpoints that only read (get_all_users, get_all_parties,
\* get_dashboard_stats): the dependency, a query, the envelope
admin_read_response(tok) ==
    IF get_current_admin(tok) # Success THEN get_current_admin(tok) ELSE Success

admin_read(tok) == admin_read_response(tok).code \in {200, 401, 403} /\ UNCHANGED vars

\* ------------------------------------------------------------------- parties
\* the name and the acronym of a new party are fresh here
create_political_party_response(tok) ==
    IF get_current_admin(tok) # Success THEN get_current_admin(tok) ELSE Success

create_political_party(tok) ==
    IF create_political_party_response(tok) = Success
    THEN /\ Committed
         /\ parties' = parties \cup {next_id.parties}
         /\ next_id' = [next_id EXCEPT !.parties = @ + 1]
         /\ UNCHANGED <<users, elections, positions, candidates, votes>>
    ELSE UNCHANGED vars

\* db.query(Candidate).filter(Candidate.party_id == p).count()
candidates_of_party(p) ==
    Cardinality({c \in DOMAIN candidates : candidates[c].party_id = p})

\* a delete_political_party without the count of candidates (C9 depends on
\* the count)
delete_political_party_unchecked(tok, party_id) ==
    IF get_current_admin(tok) # Success THEN get_current_admin(tok)
    ELSE IF party_id \notin parties THEN Failure("Political party not found")
    ELSE Success

delete_political_party_response(tok, party_id) ==
    IF get_current_admin(tok) # Success THEN get_current_admin(tok)
    ELSE IF party_id \notin parties THEN Failure("Political party not found")
    ELSE IF candidates_of_party(party_id) > 0
    THEN Failure("Cannot delete party with " \o ToString(candidates_of_party(party_id))
                 \o " associated candidates")
    ELSE Success

delete_political_party(tok, party_id) ==
    IF delete_political_party_response(tok, party_id) = Success
    THEN /\ Committed
         /\ parties' = parties \ {party_id}
         /\ UNCHANGED <<users, elections, positions, candidates, votes, next_id>>
    ELSE UNCHANGED vars

\* ---------------------------------------------------------------- candidates
\* admin.py create_candidate: after the user lookup the handler evaluates
\* Candidate.user_id, a column models.Candidate does not have; the exception
\* handler rolls back and answers with the failure
create_candidate_response(tok, user_id, party_id, position_id) ==
    IF get_current_admin(tok) # Success THEN get_current_admin(tok)
    ELSE IF user_id \notin DOMAIN users THEN Failure("User not found")
    ELSE Failure(AttributeError)

create_candidate(tok, user_id, party_id, position_id) ==
    /\ create_candidate_response(tok, user_id, party_id, position_id).status = FALSE
    /\ UNCHANGED vars

\* the checks of update_candidate before db.commit(); party_id and position_id
\* are 0 when the form does not give them
update_candidate_checks(tok, candidate_id, party_id, position_id) ==
    IF get_current_admin(tok) # Success THEN get_current_admin(tok)
    ELSE IF candidate_id \notin DOMAIN candidates THEN Failure("Candidate not found")
    ELSE IF party_id # 0 /\ party_id \notin parties
    THEN Failure("Political party not found")
    ELSE IF position_id # 0 /\ position_id \notin DOMAIN positions
    THEN Failure("Position not found")
    ELSE Success

\* after db.commit() the answer reads candidate.user_id, which models.Candidate
\* does not have: the handler answers with a failure although it has committed
update_candidate_response(tok, candidate_id, party_id, position_id) ==
    IF update_candidate_checks(tok, candidate_id, party_id, position_id) # Success
    THEN update_candidate_checks(tok, candidate_id, party_id, position_id)
    ELSE Failure(AttributeError)

update_candidate(tok, candidate_id, party_id, position_id) ==
    IF update_candidate_checks(tok, candidate_id, party_id, position_id) = Success
    THEN /\ Committed
         /\ candidates' = [candidates EXCEPT ![candidate_id] =
                [party_id |-> IF party_id # 0 THEN party_id ELSE @.party_id,
                 position_id |-> IF position_id # 0 THEN position_id ELSE @.position_id]]
         /\ UNCHANGED <<users, elections, positions, parties, votes, next_id>>
    ELSE UNCHANGED vars

delete_candidate_response(tok, candidate_id) ==
    IF get_current_admin(tok) # Success THEN get_current_admin(tok)
    ELSE IF candidate_id \notin DOMAIN candidates THEN Failure("Candidate not found")
    ELSE IF votes_for_candidate(candidate_id) > 0
    THEN Failure("Cannot delete candidate with "
                 \o ToString(votes_for_candidate(candidate_id))
                 \o " votes. Deactivate instead.")
    ELSE Success

delete_candidate(tok, candidate_id) ==
    IF delete_candidate_response(tok, candidate_id) = Success
    THEN /\ Committed
         /\ candidates' = Remove(candidates, {candidate_id})
         /\ UNCHANGED <<users, elections, positions, parties, votes, next_id>>
    ELSE UNCHANGED vars

\* ----------------------------------------------------------------- elections
Election(election_type, state, is_active, start_date, end_date) ==
    [election_type |-> election_type, state |-> state, is_active |-> is_active,
     start_date |-> start_date, end_date |-> end_date]

\* start_date and end_date and start_date >= end_date
dates_out_of_order(start_date, end_date) ==
    start_date # NoDate /\ end_date # NoDate /\ start_date >= end_date

\* admin.py create_election (POST /admin/elections)
admin_create_election_response(tok, election_type, state, is_active, start_date, end_date) ==
    IF get_current_admin(tok) # Success THEN get_current_admin(tok)
    ELSE IF dates_out_of_order(start_date, end_date)
    THEN Failure("End date must be after start date")
    ELSE Success

admin_create_election(tok, election_type, state, is_active, start_date, end_date) ==
    IF admin_create_election_response(tok, election_type, state, is_active,
                                      start_date, end_date) = Success
    THEN /\ Committed
         /\ elections' = Put(elections, next_id.elections,
                             Election(election_type, state, is_active, start_date, end_date))
         /\ next_id' = [next_id EXCEPT !.elections = @ + 1]
         /\ UNCHANGED <<users, positions, candidates, parties, votes>>
    ELSE UNCHANGED vars

\* elections.py create_election (POST /api/elections): the dates are stored
\* as the body gives them
api_create_election_response(tok, election_type, state, is_active, start_date, end_date) ==
    IF get_current_admin(tok) # Success THEN get_current_admin(tok)
    ELSE IF election_type \in {ET_STATE, ET_LOCAL} /\ state = NoState
    THEN Failure("State is required for state and local elections")
    ELSE Success

api_create_election(tok, election_type, state, is_active, start_date, end_date) ==
    IF api_create_election_response(tok, election_type, state, is_active,
                                    start_date, end_date) = Success
    THEN /\ Committed
         /\ elections' = Put(elections, next_id.elections,
                             Election(election_type, state, is_active, start_date, end_date))
         /\ next_id' = [next_id EXCEPT !.elections = @ + 1]
         /\ UNCHANGED <<users, positions, candidates, parties, votes>>
    ELSE UNCHANGED vars

\* the row of update_election after its assignments; election_type, state and
\* is_active are "None", the dates NoDate, when the form does not give them
election_assigned(row, election_type, state, is_active, start_date, end_date) ==
    [election_type |-> IF election_type # "None" THEN election_type ELSE row.election_type,
     state |-> IF state # NoState THEN state ELSE row.state,
     is_active |-> IF is_active # "None" THEN is_active = "True" ELSE row.is_active,
     start_date |-> IF start_date # NoDate THEN start_date ELSE row.start_date,
     end_date |-> IF end_date # NoDate THEN end_date ELSE row.end_date]

\* the dates are validated on the row after every given field is assigned; a
\* refusal returns before db.commit(), and the assignments go with the session
update_election_response(tok, election_id, election_type, state, is_active, start_date, end_date) ==
    IF get_current_admin(tok) # Success THEN get_current_admin(tok)
    ELSE IF election_id \notin DOMAIN elections THEN Failure("Election not found")
    ELSE IF dates_out_of_order(
                election_assigned(elections[election_id], election_type, state,
                                  is_active, start_date, end_date).start_date,
                election_assigned(elections[election_id], election_type, state,
                                  is_active, start_date, end_date).end_date)
    THEN Failure("End date must be after start date")
    ELSE Success

update_election(tok, election_id, election_type, state, is_active, start_date, end_date) ==
    IF update_election_response(tok, election_id, election_type, state, is_active,
                                start_date, end_date) = Success
    THEN /\ Committed
         /\ elections' = [elections EXCEPT ![election_id] =
                election_assigned(@, election_type, state, is_active,
                                  start_date, end_date)]
         /\ UNCHANGED <<users, positions, candidates, parties, votes, next_id>>
    ELSE UNCHANGED vars

positions_of_election(e) == {p \in DOMAIN positions : positions[p].election_id = e}

candidates_of_positions(ps) == {c \in DOMAIN candidates : candidates[c].position_id \in ps}

\* db.delete(candidate) of a candidate that has votes: Candidate.votes has no
\* delete cascade, so the unit of work sets votes.candidate_id to NULL, which
\* the column (nullable=False) refuses: TRUE when the flush goes through
delete_candidates_flush(cs) == \A c \in cs : votes_for_candidate(c) = 0

delete_election_response(tok, election_id) ==
    IF get_current_admin(tok) # Success THEN get_current_admin(tok)
    ELSE IF election_id \notin DOMAIN elections THEN Failure("Election not found")
    ELSE IF votes_in_election(election_id) > 0
    THEN Failure("Cannot delete election with "
                 \o ToString(votes_in_election(election_id)) \o " votes")
    ELSE IF ~delete_candidates_flush(
                 candidates_of_positions(positions_of_election(election_id)))
    THEN Failure(NotNullViolation)
    ELSE Success

delete_election(tok, election_id) ==
    IF delete_election_response(tok, election_id) = Success
    THEN /\ Committed
         /\ candidates' = Remove(candidates,
                candidates_of_positions(positions_of_election(election_id)))
         /\ positions' = Remove(positions, positions_of_election(election_id))
         /\ elections' = Remove(elections, {election_id})
         /\ UNCHANGED <<users, parties, votes, next_id>>
    ELSE UNCHANGED vars

\* ----------------------------------------------------------------- positions
\* admin.py create_position (POST /admin/positions)
admin_create_position_response(tok, election_id) ==
    IF get_current_admin(tok) # Success THEN get_current_admin(tok)
    ELSE IF election_id \notin DOMAIN elections THEN Failure("Election not found")
    ELSE Success

admin_create_position(tok, election_id) ==
    IF admin_create_position_response(tok, election_id) = Success
    THEN /\ Committed
         /\ positions' = Put(positions, next_id.positions, [election_id |-> election_id])
         /\ next_id' = [next_id EXCEPT !.positions = @ + 1]
         /\ UNCHANGED <<users, elections, candidates, parties, votes>>
    ELSE UNCHANGED vars

\* elections.py create_position (POST /api/positions): no lookup of the
\* election, only the foreign key positions.election_id where it is enforced
api_create_position_response(tok, election_id) ==
    IF get_current_admin(tok) # Success THEN get_current_admin(tok)
    ELSE IF fk_enforced /\ election_id \notin DOMAIN elections
    THEN Failure(ForeignKeyViolation)
    ELSE Success

api_create_position(tok, election_id) ==
    IF api_create_position_response(tok, election_id) = Success
    THEN /\ Committed
         /\ positions' = Put(positions, next_id.positions, [election_id |-> election_id])
         /\ next_id' = [next_id EXCEPT !.positions = @ + 1]
         /\ UNCHANGED <<users, elections, candidates, parties, votes>>
    ELSE UNCHANGED vars

update_position_response(tok, position_id, election_id) ==
    IF get_current_admin(tok) # Success THEN get_current_admin(tok)
    ELSE IF position_id \notin DOMAIN positions THEN Failure("Position not found")
    ELSE IF election_id # 0 /\ election_id \notin DOMAIN elections
    THEN Failure("Election not found")
    ELSE Success

update_position(tok, position_id, election_id) ==
    IF update_position_response(tok, position_id, election_id) = Success
    THEN /\ Committed
         /\ positions' = [positions EXCEPT ![position_id].election_id =
                              IF election_id # 0 THEN election_id ELSE @]
         /\ UNCHANGED <<users, elections, candidates, parties, votes, next_id>>
    ELSE UNCHANGED vars

delete_position_response(tok, position_id) ==
    IF get_current_admin(tok) # Success THEN get_current_admin(tok)
    ELSE IF position_id \notin DOMAIN positions THEN Failure("Position not found")
    ELSE IF \E c \in candidates_of_positions({position_id}) : votes_for_candidate(c) > 0
    THEN Failure("Cannot delete position with candidates who have received votes")
    ELSE Success

delete_position(tok, position_id) ==
    IF delete_position_response(tok, position_id) = Success
    THEN /\ Committed
         /\ candidates' = Remove(candidates, candidates_of_positions({position_id}))
         /\ positions' = Remove(positions, {position_id})
         /\ UNCHANGED <<users, elections, parties, votes, next_id>>
    ELSE UNCHANGED vars


\* ----------------------------------------------------------------- the system
\* The database after setup: the seeded super admin (create_super_admin.py),
\* one registered voter, one party, and the sample data
\* (create_sample_data.py): an active federal election and an active Lagos
\* state election, one position in each and one candidate without a party for
\* each position.  User.first_name and User.last_name are nullable=False
\* (models.py) and no code gives them a value, so the users rows are those of
\* a users table that accepts a row without them: one made before the two
\* columns were declared, which create_all leaves as it is.
Init ==
    /\ users = (1 :> User(SUPER_ADMIN, TRUE, FCT, "e1", "n1", get_password_hash("pw1"))
             @@ 2 :> User(USER, TRUE, LAGOS, "e2", "n2", get_password_hash("pw1")))
    /\ elections = (1 :> Election(ET_FEDERAL, NoState, TRUE, 1, 2)
                 @@ 2 :> Election(ET_STATE, LAGOS, TRUE, 1, 2))
    /\ positions = (1 :> [election_id |-> 1] @@ 2 :> [election_id |-> 2])
    /\ candidates = (1 :> [position_id |-> 1, party_id |-> 0]
                  @@ 2 :> [position_id |-> 2, party_id |-> 0])
    /\ parties = {1}
    /\ votes = <<>>
    /\ next_id = [users |-> 3, elections |-> 3, positions |-> 3, parties |-> 2]
    /\ fk_enforced \in BOOLEAN
    /\ pending = {}
    /\ answered = {}
    /\ otps = <<>>
    /\ inflight = {}
    /\ ops = 0

\* the endpoints behind Depends(get_current_admin), called with token tok
AdminGated(tok) ==
    \/ \E u \in UserIds, f \in ProfileUpdates \cup ProfileUpdatesRefusedLate :
          update_user_profile(tok, u, f.nin, f.email, f.state_of_residence, f.is_active)
    \/ \E u \in UserIds, a \in BOOLEAN : update_user_status(tok, u, a)
    \/ admin_read(tok)
    \/ create_political_party(tok)
    \/ \E p \in PartyIds : delete_political_party(tok, p)
    \/ \E u \in UserIds, p \in PartyIds, q \in PositionIds : create_candidate(tok, u, p, q)
    \/ \E c \in CandidateIds, f \in CandidateUpdates \cup CandidateUpdatesRefusedLate :
          update_candidate(tok, c, f.party_id, f.position_id)
    \/ \E c \in CandidateIds : delete_candidate(tok, c)
    \/ \E t \in ElectionType, st \in State \cup {NoState}, d \in ElectionDates :
          admin_create_election(tok, t, st, TRUE, d[1], d[2])
    \/ \E t \in ElectionType, st \in State \cup {NoState}, d \in ElectionDates :
          api_create_election(tok, t, st, FALSE, d[1], d[2])
    \/ \E e \in ElectionIds, f \in ElectionUpdates \cup ElectionUpdatesRefusedLate :
          update_election(tok, e, f.election_type, f.state, f.is_active,
                          f.start_date, f.end_date)
    \/ \E e \in ElectionIds : delete_election(tok, e)
    \/ \E e \in ElectionIds : admin_create_position(tok, e)
    \/ \E e \in ElectionIds : api_create_position(tok, e)
    \/ \E q \in PositionIds, e \in ElectionIds \ {0} : update_position(tok, q, e)
    \/ \E q \in PositionIds : delete_position(tok, q)

\* the endpoints behind Depends(get_current_super_admin)
SuperAdminGated(tok) ==
    \/ \E u \in UserIds, role \in UserRole : update_user_role(tok, u, role)
    \/ \E u \in UserIds : delete_user(tok, u)

\* a behaviour is followed for MaxOps state-changing requests
Budget == ops < MaxOps

Next ==
    \/ Budget /\ \E tok \in Tokens, e \in ElectionIds, c \in CandidateIds :
          cast_vote_begin(tok, e, c)
    \/ \E r \in pending : cast_vote_commit(r)
    \/ Budget /\ \E role \in UserRole, st \in State, m \in Emails, n \in Nins :
          register_user(role, st, m, n, "pw1")
    \/ Budget /\ \E tok \in Tokens, u \in UserIds,
                     f \in ProfileUpdates \cup ProfileUpdatesRefusedLate :
          update_user_profile(tok, u, f.nin, f.email, f.state_of_residence, f.is_active)
    \/ Budget /\ \E tok \in Tokens, u \in UserIds, role \in UserRole :
          update_user_role(tok, u, role)
    \/ Budget /\ \E tok \in Tokens, u \in UserIds, a \in BOOLEAN :
          update_user_status(tok, u, a)
    \/ Budget /\ \E tok \in Tokens, u \in UserIds : delete_user(tok, u)
    \/ Budget /\ \E tok \in Tokens : admin_read(tok)
    \/ Budget /\ \E tok \in Tokens : create_political_party(tok)
    \/ Budget /\ \E tok \in Tokens, p \in PartyIds : delete_political_party(tok, p)
    \/ Budget /\ \E tok \in Tokens, u \in UserIds, p \in PartyIds, q \in PositionIds :
          create_candidate(tok, u, p, q)
    \/ Budget /\ \E tok \in Tokens, c \in CandidateIds,
                     f \in CandidateUpdates \cup CandidateUpdatesRefusedLate :
          update_candidate(tok, c, f.party_id, f.position_id)
    \/ Budget /\ \E tok \in Tokens, c \in CandidateIds : delete_candidate(tok, c)
    \/ Budget /\ \E tok \in Tokens, t \in ElectionType, st \in State \cup {NoState},
                     d \in ElectionDates :
          admin_create_election(tok, t, st, TRUE, d[1], d[2])
    \/ Budget /\ \E tok \in Tokens, t \in ElectionType, st \in State \cup {NoState},
                     d \in ElectionDates :
          api_create_election(tok, t, st, FALSE, d[1], d[2])
    \/ Budget /\ \E tok \in Tokens, e \in ElectionIds,
                     f \in ElectionUpdates \cup ElectionUpdatesRefusedLate :
          update_election(tok, e, f.election_type, f.state, f.is_active,
                          f.start_date, f.end_date)
    \/ Budget /\ \E tok \in Tokens, e \in ElectionIds : delete_election(tok, e)
    \/ Budget /\ \E tok \in Tokens, e \in ElectionIds : admin_create_position(tok, e)
    \/ Budget /\ \E tok \in Tokens, e \in ElectionIds : api_create_position(tok, e)
    \/ Budget /\ \E tok \in Tokens, q \in PositionIds, e \in ElectionIds \ {0} :
          update_position(tok, q, e)
    \/ Budget /\ \E tok \in Tokens, q \in PositionIds : delete_position(tok, q)

Spec == Init /\ [][Next]_vars

\* ------------------------------------------------- account requests in flight
\* A request that writes the users table, between the handler's checks and
\* its db.commit(): two workers can each be at this point for requests that
\* each passed its checks on the table as it was.

\* the columns that the session's flush writes: the value assigned where it
\* differs from the value loaded, "None" (NoState) where the column is left out
changed(old, new) == IF new = old THEN "None" ELSE new

AccountRequest(rid, op, user_id, role, is_active, state_of_residence, email, nin, hashed_password) ==
    [rid |-> rid, op |-> op, user_id |-> user_id, role |-> role, is_active |-> is_active,
     state_of_residence |-> state_of_residence, email |-> email, nin |-> nin,
     hashed_password |-> hashed_password]

\* the UPDATE of request r writes no column
writes_nothing(r) ==
    /\ r.role = "None" /\ r.is_active = "None" /\ r.state_of_residence = "None"
    /\ r.email = "None" /\ r.nin = "None" /\ r.hashed_password = "None"

\* a users table without the constraints (C14 depends on them)
no_users_unique(r) == Success

\* unique=True on users.email and users.nin: the INSERT or UPDATE of request r
\* against the rows of the other users
users_unique(r) ==
    IF r.email # "None" /\ \E u \in DOMAIN users \ {r.user_id} : users[u].email = r.email
    THEN Failure("IntegrityError: UNIQUE constraint failed: users.email")
    ELSE IF r.nin # "None" /\ \E u \in DOMAIN users \ {r.user_id} : users[u].nin = r.nin
    THEN Failure("IntegrityError: UNIQUE constraint failed: users.nin")
    ELSE Success

StaleDataError == "UPDATE statement on table 'users' expected to update 1 row(s); 0 were matched."

\* db.commit() of request r on the table as it is now: an UPDATE of a row that
\* is gone raises, a DELETE of a row that is gone only warns
account_commit_response(r) ==
    IF r.op = "insert" THEN users_unique(r)
    ELSE IF r.op = "update"
    THEN IF writes_nothing(r) THEN Success
         ELSE IF r.user_id \notin DOMAIN users THEN Failure(StaleDataError)
         ELSE users_unique(r)
    ELSE IF fk_enforced /\ \E i \in VoteIds : votes[i].user_id = r.user_id
    THEN Failure(ForeignKeyViolation)
    ELSE Success

\* the row after the UPDATE of request r
account_written(row, r) ==
    User(IF r.role # "None" THEN r.role ELSE row.role,
         IF r.is_active # "None" THEN r.is_active = "True" ELSE row.is_active,
         IF r.state_of_residence # "None" THEN r.state_of_residence
         ELSE row.state_of_residence,
         IF r.email # "None" THEN r.email ELSE row.email,
         IF r.nin # "None" THEN r.nin ELSE row.nin,
         IF r.hashed_password # "None" THEN r.hashed_password ELSE row.hashed_password)

\* the handler has passed its checks and is about to commit request r
account_begin(r) ==
    /\ Cardinality(inflight) < MaxInflight
    /\ ops' = ops + 1
    /\ inflight' = inflight \cup {r}
    /\ UNCHANGED <<db, fk_enforced, pending, answered, otps>>

register_user_begin(role, state_of_residence, email, nin, password) ==
    IF register_user_response(role, state_of_residence, email, nin, password) = Success
    THEN account_begin(AccountRequest(ops + 1, "insert", 0, role, "True", state_of_residence,
                                      email, nin, get_password_hash(password)))
    ELSE UNCHANGED vars

update_user_profile_begin(tok, user_id, nin, email, state_of_residence, is_active) ==
    IF update_user_profile_checks(tok, user_id, nin, email, state_of_residence,
                                    is_active) = Success
    THEN account_begin(AccountRequest(ops + 1, "update", user_id, "None",
            IF is_active = "None" \/ (is_active = "True") = users[user_id].is_active
            THEN "None" ELSE is_active,
            IF state_of_residence = NoState THEN "None"
            ELSE changed(users[user_id].state_of_residence, state_of_residence),
            changed(users[user_id].email, email),
            changed(users[user_id].nin, nin),
            "None"))
    ELSE UNCHANGED vars

update_user_role_begin(tok, user_id, new_role) ==
    IF update_user_role_response(tok, user_id, new_role) = Success
    THEN account_begin(AccountRequest(ops + 1, "update", user_id,
                                      changed(users[user_id].role, new_role),
                                      "None", "None", "None", "None", "None"))
    ELSE UNCHANGED vars

delete_user_begin(tok, user_id) ==
    IF delete_user_response(tok, user_id) = Success
    THEN account_begin(AccountRequest(ops + 1, "delete", user_id,
                                      "None", "None", "None", "None", "None", "None"))
    ELSE UNCHANGED vars

\* db.commit(): the write goes through, or the exception handler rolls back
account_commit(r) ==
    /\ r \in inflight
    /\ inflight' = inflight \ {r}
    /\ IF account_commit_response(r) # Success THEN UNCHANGED users /\ UNCHANGED next_id
       ELSE IF r.op = "insert"
       THEN /\ users' = Put(users, next_id.users,
                            User(r.role, TRUE, r.state_of_residence, r.email, r.nin,
                                 r.hashed_password))
            /\ next_id' = [next_id EXCEPT !.users = @ + 1]
       ELSE IF r.op = "update"
       THEN /\ users' = IF writes_nothing(r) THEN users
                        ELSE [users EXCEPT ![r.user_id] = account_written(@, r)]
            /\ UNCHANGED next_id
       ELSE /\ users' = Remove(users, {r.user_id})
            /\ UNCHANGED next_id
    /\ UNCHANGED <<elections, positions, candidates, parties, votes,
                   fk_enforced, pending, answered, otps, ops>>

AccountBudget == ops < MaxAccountOps

NextAccounts ==
    \/ AccountBudget /\ \E role \in UserRole, m \in Emails, n \in Nins :
          register_user_begin(role, LAGOS, m, n, "pw1")
    \/ AccountBudget /\ \E tok \in Tokens, u \in UserIds, f \in IdentityUpdates :
          update_user_profile_begin(tok, u, f.nin, f.email, f.state_of_residence, f.is_active)
    \/ AccountBudget /\ \E tok \in Tokens, u \in UserIds, role \in UserRole :
          update_user_role_begin(tok, u, role)
    \/ AccountBudget /\ \E tok \in Tokens, u \in UserIds : delete_user_begin(tok, u)
    \/ \E r \in inflight : account_commit(r)

\* the database after setup, with the second account in any of the roles that
\* a registration or a role assignment gives
InitAccounts ==
    /\ \E role \in UserRole :
          users = (1 :> User(SUPER_ADMIN, TRUE, FCT, "e1", "n1", get_password_hash("pw1"))
                @@ 2 :> User(role, TRUE, LAGOS, "e2", "n2", get_password_hash("pw1")))
    /\ elections = (1 :> Election(ET_FEDERAL, NoState, TRUE, 1, 2)
                 @@ 2 :> Election(ET_STATE, LAGOS, TRUE, 1, 2))
    /\ positions = (1 :> [election_id |-> 1] @@ 2 :> [election_id |-> 2])
    /\ candidates = (1 :> [position_id |-> 1, party_id |-> 0]
                  @@ 2 :> [position_id |-> 2, party_id |-> 0])
    /\ parties = {1}
    /\ votes = <<>>
    /\ next_id = [users |-> 3, elections |-> 3, positions |-> 3, parties |-> 2]
    /\ fk_enforced \in BOOLEAN
    /\ pending = {}
    /\ answered = {}
    /\ otps = <<>>
    /\ inflight = {}
    /\ ops = 0

SpecAccounts == InitAccounts /\ [][NextAccounts]_vars

\* ------------------------------------------------------- deactivated accounts
\* the database after setup and after a super admin has given the second
\* account any role (update_user_role) and any status (update_user_status)
InitGate ==
    /\ \E role \in UserRole, is_active \in BOOLEAN :
          users = (1 :> User(SUPER_ADMIN, TRUE, FCT, "e1", "n1", get_password_hash("pw1"))
                @@ 2 :> User(role, is_active, LAGOS, "e2", "n2", get_password_hash("pw1")))
    /\ elections = (1 :> Election(ET_FEDERAL, NoState, TRUE, 1, 2)
                 @@ 2 :> Election(ET_STATE, LAGOS, TRUE, 1, 2))
    /\ positions = (1 :> [election_id |-> 1] @@ 2 :> [election_id |-> 2])
    /\ candidates = (1 :> [position_id |-> 1, party_id |-> 0]
                  @@ 2 :> [position_id |-> 2, party_id |-> 0])
    /\ parties = {1}
    /\ votes = <<>>
    /\ next_id = [users |-> 3, elections |-> 3, positions |-> 3, parties |-> 2]
    /\ fk_enforced \in BOOLEAN
    /\ pending = {}
    /\ answered = {}
    /\ otps = <<>>
    /\ inflight = {}
    /\ ops = 0

SpecGate == InitGate /\ [][Next]_vars

\* ------------------------------------------------------------ password reset
\* the codes that OTPService.generate_otp can draw
OtpCodes == {"100000", "999999"}

\* a row of the otps table; expired is expires_at <= datetime.utcnow()
OTP(email, otp_code) ==
    [email |-> email, otp_code |-> otp_code, is_used |-> FALSE, expired |-> FALSE]

\* the string sent as a bearer token or as ResetPasswordRequest.token: a JWT
\* signed by create_access_token with its subject, or any other string
AccessToken(sub) == [jwt |-> TRUE, sub |-> sub]
NotAToken(string) == [jwt |-> FALSE, sub |-> string]

\* verify_token: the payload's subject, "None" where jwt.decode raises
verify_token(token) == IF token.jwt THEN token.sub ELSE "None"

\* AuthService.authenticate_user and the answer of login_for_access_token
login_for_access_token_response(username, password) ==
    LET user == existing_user(username, username) IN
    IF user = 0 THEN Failure("Invalid credentials")
    ELSE IF users[user].hashed_password # get_password_hash(password)
        THEN Failure("Invalid credentials")
    ELSE IF ~users[user].is_active THEN Failure("Account is inactive")
    ELSE IF ~valid_user_response(users[user]) THEN Failure(ValidationError)
    ELSE Success

\* the access token that a login gives: create_access_token({"sub": user.email})
access_token(username, password) ==
    IF login_for_access_token_response(username, password) = Success
    THEN AccessToken(users[existing_user(username, username)].email)
    ELSE NotAToken("None")

login_for_access_token(username, password) ==
    /\ login_for_access_token_response(username, password) \in
          {Success, Failure("Invalid credentials"), Failure("Account is inactive"),
           Failure(ValidationError)}
    /\ UNCHANGED vars

\* a create_otp_record that leaves the earlier rows as they are (C26 depends
\* on the update)
create_otp_record_keeps_earlier(email, otp_code) == Append(otps, OTP(email, otp_code))

\* OTPService.create_otp_record: the email's rows are marked used, one is added
create_otp_record(email, otp_code) ==
    Append([i \in 1..Len(otps) |->
               IF otps[i].email = email THEN [otps[i] EXCEPT !.is_used = TRUE]
               ELSE otps[i]],
           OTP(email, otp_code))

\* POST /forgot-password answers the same whether the email is known or not
forgot_password_response(email) == Success

\* the body of the answer: StandardResponse(status, data, error, message)
forgot_password_body(email) ==
    [status |-> forgot_password_response(email).status,
     data |-> [message |-> "If the email exists, a reset code has been sent",
               email |-> email],
     error |-> forgot_password_response(email).error,
     message |-> IF existing_user(email, "None") = 0
                 THEN "Reset instructions sent if email exists"
                 ELSE "Reset code sent successfully"]

forgot_password(email, otp_code) ==
    IF existing_user(email, "None") = 0 THEN UNCHANGED vars
    ELSE /\ otps' = create_otp_record(email, otp_code)
         /\ ops' = ops + 1
         /\ UNCHANGED <<db, fk_enforced, pending, answered, inflight>>

\* ten minutes after create_otp_record the row's expires_at is in the past
otp_expires(i) ==
    /\ ~otps[i].expired
    /\ otps' = [otps EXCEPT ![i].expired = TRUE]
    /\ UNCHANGED <<db, fk_enforced, pending, answered, inflight, ops>>

\* OTPService.verify_otp: the rows that its query matches (no route calls it)
verify_otp(email, otp_code) ==
    {i \in 1..Len(otps) : /\ otps[i].email = email
                          /\ otps[i].otp_code = otp_code
                          /\ ~otps[i].is_used
                          /\ ~otps[i].expired}

\* POST /reset-password
reset_password_response(token, new_password) ==
    IF verify_token(token) = "None" THEN Failure("Invalid or expired reset token")
    ELSE IF existing_user(verify_token(token), "None") = 0 THEN Failure("User not found")
    ELSE Success

reset_password(token, new_password) ==
    IF reset_password_response(token, new_password) = Success
    THEN LET user == existing_user(verify_token(token), "None") IN
         /\ Committed
         /\ users' = [users EXCEPT ![user].hashed_password =
                                        get_password_hash(new_password)]
         /\ UNCHANGED <<elections, positions, candidates, parties, votes, next_id>>
    ELSE UNCHANGED vars

AuthBudget == ops < MaxAuthOps

\* what a client can send as ResetPasswordRequest.token: the access token of a
\* login, or a code that forgot_password printed
ResetTokens ==
    {access_token(m, pw) : m \in Emails \cup Nins, pw \in Passwords}
        \cup {NotAToken(otps[i].otp_code) : i \in 1..Len(otps)}

NextAuth ==
    \/ \E m \in Emails \cup Nins, pw \in Passwords : login_for_access_token(m, pw)
    \/ AuthBudget /\ \E m \in Emails, code \in OtpCodes : forgot_password(m, code)
    \/ \E i \in 1..Len(otps) : otp_expires(i)
    \/ AuthBudget /\ \E token \in ResetTokens, pw \in Passwords : reset_password(token, pw)
    \/ AuthBudget /\ \E tok \in Tokens, u \in UserIds, f \in UnvalidatedUpdates :
          update_user_profile(tok, u, f.nin, f.email, f.state_of_residence, f.is_active)
    \/ AuthBudget /\ \E tok \in Tokens, u \in UserIds, a \in BOOLEAN :
          update_user_status(tok, u, a)

SpecAuth == Init /\ [][NextAuth]_vars

\* ------------------------------------------------------------ the OTP service
\* a call of OTPService.create_otp_record, which commits
create_otp_record_commit(email, otp_code) ==
    /\ otps' = create_otp_record(email, otp_code)
    /\ ops' = ops + 1
    /\ UNCHANGED <<db, fk_enforced, pending, answered, inflight>>

\* what OTPService.verify_otp returns
verify_otp_returns(email, otp_code) == verify_otp(email, otp_code) # {}

\* .first() of verify_otp's query: the matching row of lowest id
first_otp(email, otp_code) ==
    CHOOSE i \in verify_otp(email, otp_code) : \A j \in verify_otp(email, otp_code) : i <= j

\* a call of OTPService.verify_otp: a matching row is marked used and the
\* change committed, no row is written otherwise
verify_otp_commit(email, otp_code) ==
    IF verify_otp_returns(email, otp_code)
    THEN /\ otps' = [otps EXCEPT ![first_otp(email, otp_code)].is_used = TRUE]
         /\ ops' = ops + 1
         /\ UNCHANGED <<db, fk_enforced, pending, answered, inflight>>
    ELSE UNCHANGED vars

\* the calls of the OTP service, one after the other, and the passing of time
NextOtp ==
    \/ AuthBudget /\ \E m \in Emails, code \in OtpCodes : create_otp_record_commit(m, code)
    \/ AuthBudget /\ \E m \in Emails, code \in OtpCodes : verify_otp_commit(m, code)
    \/ \E i \in 1..Len(otps) : otp_expires(i)

SpecOtp == Init /\ [][NextOtp]_vars

\* ---------------------------------------------------------- election results
\* db.query(Candidate).join(Position).filter(Position.election_id == e).all()
candidates_of_election(e) == {c \in DOMAIN candidates : candidate_in_election(c, e)}

\* the rows of a query without ORDER BY, in primary-key order
RECURSIVE in_id_order(_)
in_id_order(ids) ==
    IF ids = {} THEN <<>>
    ELSE LET first == CHOOSE x \in ids : \A y \in ids : x <= y
         IN <<first>> \o in_id_order(ids \ {first})

\* candidate.party.id if candidate.party else 0: the relationship loads None
\* where party_id is NULL or names no row
candidate_party(c) ==
    IF candidates[c].party_id \in parties THEN candidates[c].party_id ELSE 0

\* a roll-up in which no party is ever found in party_results (C18 depends
\* on the lookup)
no_bucket_of(party_results, party_id) == 0

\* party_id in party_results: the place of the party's entry, 0 where absent
bucket_of(party_results, party_id) ==
    IF \E i \in 1..Len(party_results) : party_results[i].party_id = party_id
    THEN CHOOSE i \in 1..Len(party_results) : party_results[i].party_id = party_id
    ELSE 0

\* one turn of the loop over the candidates
add_candidate(party_results, c) ==
    LET party_id == candidate_party(c)
        found == bucket_of(party_results, party_id)
        with_entry ==
            IF found = 0
            THEN Append(party_results,
                        [party_id |-> party_id, total_votes |-> 0, candidates |-> <<>>])
            ELSE party_results
        i == IF found = 0 THEN Len(with_entry) ELSE found
    IN [with_entry EXCEPT
           ![i].total_votes = @ + votes_for_candidate(c),
           ![i].candidates = Append(@, [candidate |-> c, votes |-> votes_for_candidate(c)])]

\* the loop: party_results after the candidates cs, from the entries so far
RECURSIVE party_results_after(_, _)
party_results_after(cs, party_results) ==
    IF cs = <<>> THEN party_results
    ELSE party_results_after(Tail(cs), add_candidate(party_results, Head(cs)))

\* (total_votes / election_votes * 100) if election_votes > 0 else 0, the
\* quotient kept as a fraction
percentage(total_votes, election_votes) ==
    IF election_votes > 0 THEN [num |-> total_votes * 100, den |-> election_votes]
    ELSE [num |-> 0, den |-> 1]

\* GET /elections/{election_id}/results
get_election_results_response(election_id) ==
    IF election_id \notin DOMAIN elections THEN Failure("Election not found")
    ELSE Success

\* results_data of an election that exists
results_data(election_id) ==
    LET total_votes == votes_in_election(election_id)
        party_results ==
            party_results_after(in_id_order(candidates_of_election(election_id)), <<>>)
    IN [total_votes |-> total_votes,
        party_results |->
            [i \in 1..Len(party_results) |->
                [party_id |-> party_results[i].party_id,
                 total_votes |-> party_results[i].total_votes,
                 percentage |-> percentage(party_results[i].total_votes, total_votes),
                 candidates |-> party_results[i].candidates]]]

get_election_results(election_id) ==
    /\ get_election_results_response(election_id) \in
          {Success, Failure("Election not found")}
    /\ UNCHANGED vars

\* who voted in which election: every user once per election at most
Ballots == (1..3) \X (1..2)

\* the votes table holding the ballots among the first k of BallotOrder that
\* were cast, choice[b] being the candidate voted for or 0
BallotOrder == <<<<1, 1>>, <<1, 2>>, <<2, 1>>, <<2, 2>>, <<3, 1>>, <<3, 2>>>>

RECURSIVE votes_cast(_, _)
votes_cast(choice, k) ==
    IF k = 0 THEN <<>>
    ELSE LET b == BallotOrder[k]
         IN IF choice[b] = 0 THEN votes_cast(choice, k - 1)
            ELSE Append(votes_cast(choice, k - 1), Vote(b[1], choice[b], b[2]))

\* The tables that the results are computed from: three voters, the two
\* elections with a position each, two parties, three candidates of any
\* party or none, the third in either election, and at most MaxVotes votes,
\* one per user and election (a candidate moved by update_candidate keeps the
\* votes cast for it in the election it left).
InitResults ==
    /\ users = (1 :> User(SUPER_ADMIN, TRUE, FCT, "e1", "n1", get_password_hash("pw1"))
             @@ 2 :> User(USER, TRUE, LAGOS, "e2", "n2", get_password_hash("pw1"))
             @@ 3 :> User(USER, TRUE, LAGOS, "e3", "n3", get_password_hash("pw1")))
    /\ elections = (1 :> Election(ET_FEDERAL, NoState, TRUE, 1, 2)
                 @@ 2 :> Election(ET_STATE, LAGOS, TRUE, 1, 2))
    /\ positions = (1 :> [election_id |-> 1] @@ 2 :> [election_id |-> 2])
    /\ parties = {1, 2}
    /\ \E p1 \in {0, 1, 2}, p2 \in {0, 1, 2}, p3 \in {0, 1, 2}, pos3 \in {1, 2} :
          candidates = (1 :> [position_id |-> 1, party_id |-> p1]
                     @@ 2 :> [position_id |-> 1, party_id |-> p2]
                     @@ 3 :> [position_id |-> pos3, party_id |-> p3])
    /\ \E choice \in [Ballots -> 0..3] :
          /\ Cardinality({b \in Ballots : choice[b] # 0}) <= MaxVotes
          /\ votes = votes_cast(choice, Len(BallotOrder))
    /\ next_id = [users |-> 4, elections |-> 3, positions |-> 3, parties |-> 3]
    /\ fk_enforced \in BOOLEAN
    /\ pending = {}
    /\ answered = {}
    /\ otps = <<>>
    /\ inflight = {}
    /\ ops = 0

NextResults == \E e \in ElectionIds : get_election_results(e)

SpecResults == InitResults /\ [][NextResults]_vars

\* -------------------------------------------------------------------- claims
\* the callers for whom the body of cast_vote runs: their token verifies, their
\* row exists and is active (Depends(get_current_active_user))
ActiveCallers == {tok \in Tokens : get_current_active_user(tok) = Success}

\* the rows of the votes table for user u in election e
votes_of(u, e) == {i \in VoteIds : votes[i].user_id = u /\ votes[i].election_id = e}

\* C1: in every reachable state, whatever the interleaving of cast_vote
\* requests and the other operations, there is at most one Vote row for each
\* pair of a user and an election.
C1_OneVotePerUserElection ==
    \A i, j \in VoteIds :
        (votes[i].user_id = votes[j].user_id /\ votes[i].election_id = votes[j].election_id)
            => i = j

\* a vote is in the table while a second request of the same user for the same
\* election, which passed the existence check before it, is about to insert
C1_Witness ==
    \E r \in pending : votes_of(r.tok, r.election_id) # {}

\* the requests of user u for election e that reached the insert
racers(u, e) ==
    {r \in pending : r.tok = u /\ r.election_id = e}
    \cup {a.request : a \in {x \in answered : x.request.tok = u /\ x.request.election_id = e}}

\* C2: of two cast_vote requests of one user for one election that both passed
\* the existence check before either committed, exactly one commits its row;
\* the other fails at the uniqueness constraint, is answered with status false
\* and leaves no row.  With more than two such requests no two commit, and
\* each one refused by the constraint has lost to one that committed.  (A
\* request that fails at a foreign key, because another operation deleted a
\* row it refers to, is not one of the two of this race.)
C2_RaceExactlyOneCommits ==
    /\ \A r \in pending :
          votes_of(r.tok, r.election_id) # {}
              => cast_vote_commit_response(new_vote(r)) = Failure(UniqueViolation)
    /\ \A a, b \in answered :
          ( /\ a.request.rid # b.request.rid
            /\ a.request.tok = b.request.tok
            /\ a.request.election_id = b.request.election_id )
          => /\ ~(a.response = Success /\ b.response = Success)
             /\ ( /\ a.response.error # ForeignKeyViolation
                  /\ b.response.error # ForeignKeyViolation
                  /\ Cardinality(racers(a.request.tok, a.request.election_id)) = 2 )
                => \/ a.response = Success /\ b.response = Failure(UniqueViolation)
                   \/ b.response = Success /\ a.response = Failure(UniqueViolation)
    /\ \A a \in answered :
          a.response = Failure(UniqueViolation)
              => /\ a.response.status = FALSE
                 /\ Cardinality(votes_of(a.request.tok, a.request.election_id)) = 1
                 /\ \E b \in answered :
                       /\ b.request.tok = a.request.tok
                       /\ b.request.election_id = a.request.election_id
                       /\ b.response = Success

\* both requests of a race have been answered: one with success, the other
\* with the constraint's failure
C2_Witness ==
    \E a, b \in answered :
        /\ a.request.rid # b.request.rid
        /\ a.request.tok = b.request.tok
        /\ a.request.election_id = b.request.election_id
        /\ a.response = Success
        /\ b.response = Failure(UniqueViolation)

\* C3 (as stated): a cast_vote request of an authenticated active user passes
\* to the insert if and only if the election exists and is active, the user
\* has no vote in it, the candidate's position belongs to it, and the election
\* is federal or the user's state of residence equals the election's state.
C3_FourConditions ==
    \A tok \in ActiveCallers, e \in ElectionIds, c \in CandidateIds :
        cast_vote_checks(tok, e, c) = Success
        <=> /\ active_election(e)
            /\ ~existing_vote(tok, e)
            /\ candidate_in_election(c, e)
            /\ \/ elections[e].election_type = ET_FEDERAL
               \/ users[tok].state_of_residence = elections[e].state

\* a request for a state or local election has passed the checks although the
\* caller's state of residence is not the election's state
C3_Witness ==
    \E r \in pending :
        /\ r.tok \in DOMAIN users
        /\ r.election_id \in DOMAIN elections
        /\ elections[r.election_id].election_type # ET_FEDERAL
        /\ users[r.tok].state_of_residence # elections[r.election_id].state

\* C4: a cast_vote answered with success has added exactly one row, with the
\* caller's id, the requested candidate and the path's election, and has left
\* the users, elections, positions, candidates, parties and the earlier votes
\* as they were; a cast_vote answered with a failure has changed no table;
\* and the votes table changes in no other way than by such an answer.  (A
\* request refused by one of the checks returns before any write and is no
\* step of the model.)
C4_CastVoteFrame ==
    [][ /\ \A a \in answered' \ answered :
              IF a.response.status
              THEN /\ votes' = Append(votes, Vote(a.request.tok, a.request.candidate_id,
                                                  a.request.election_id))
                   /\ UNCHANGED <<users, elections, positions, candidates, parties>>
              ELSE UNCHANGED db
        /\ (votes' # votes) => (answered' # answered)
      ]_vars

\* a request has been answered with success and its row is the last of the table
C4_Witness ==
    \E a \in answered :
        /\ a.response = Success
        /\ Len(votes) > 0
        /\ votes[Len(votes)] = Vote(a.request.tok, a.request.candidate_id,
                                    a.request.election_id)

\* C5 (as stated): for every state or local election, a cast_vote of a user
\* whose state of residence differs from the election's state does not pass
\* to the insert.
C5_ResidentsOnly ==
    \A tok \in ActiveCallers, e \in DOMAIN elections, c \in CandidateIds :
        ( /\ elections[e].election_type # ET_FEDERAL
          /\ users[tok].state_of_residence # elections[e].state )
        => cast_vote_checks(tok, e, c) # Success

\* a vote is in the table for a state or local election whose state is not
\* the voter's state of residence
C5_Witness ==
    \E i \in VoteIds :
        /\ votes[i].user_id \in DOMAIN users
        /\ votes[i].election_id \in DOMAIN elections
        /\ elections[votes[i].election_id].election_type # ET_FEDERAL
        /\ elections[votes[i].election_id].state = NoState
        /\ users[votes[i].user_id].state_of_residence # NoState

\* C6 (as stated): when the user has a vote in election E, every further
\* cast_vote of that user for E fails with 'You have already voted in this
\* election', whatever the candidate and whatever the state of the election.
C6_AlwaysAlreadyVoted ==
    \A tok \in ActiveCallers, e \in ElectionIds, c \in CandidateIds :
        existing_vote(tok, e)
            => cast_vote_checks(tok, e, c) = Failure("You have already voted in this election")

\* C6 (amended): when the user has a vote in election E, every further
\* cast_vote of that user for E fails, whatever the candidate: with 'You have
\* already voted in this election' while E is active, and with 'Election not
\* found or not active' once E is not.
C6_AlreadyVotedWhileActive ==
    \A tok \in ActiveCallers, e \in ElectionIds, c \in CandidateIds :
        existing_vote(tok, e)
            => cast_vote_checks(tok, e, c) =
                   IF active_election(e)
                   THEN Failure("You have already voted in this election")
                   ELSE Failure("Election not found or not active")

\* an active user has a vote in an election that has since been deactivated
C6_Witness ==
    \E tok \in ActiveCallers, e \in DOMAIN elections :
        existing_vote(tok, e) /\ ~elections[e].is_active

\* C7: cast_vote for an election id that resolves to no election, or to one
\* whose is_active is false, fails with 'Election not found or not active'
\* for every caller the handler runs for, every candidate id and whatever
\* votes exist, and no such request passes to the insert.
C7_ElectionNotFoundOrInactive ==
    /\ \A tok \in ActiveCallers, e \in 0..next_id.elections, c \in CandidateIds :
          (e \notin DOMAIN elections \/ ~elections[e].is_active)
              => cast_vote_checks(tok, e, c) = Failure("Election not found or not active")
    /\ \A tok \in Tokens, e \in 0..next_id.elections, c \in CandidateIds :
          (e \notin DOMAIN elections \/ ~elections[e].is_active)
              => ~ENABLED <<cast_vote_begin(tok, e, c)>>_vars

\* an election with a candidate is inactive while a user who has not voted in
\* it, and whom its state admits, is active
C7_Witness ==
    \E tok \in ActiveCallers, e \in DOMAIN elections, c \in DOMAIN candidates :
        /\ ~elections[e].is_active
        /\ candidate_in_election(c, e)
        /\ ~existing_vote(tok, e)
        /\ state_eligible(tok, e)

\* C8: a Vote row, once in the table, is in it in every later state with the
\* same user_id, candidate_id and election_id: no operation updates or
\* removes a vote.
C8_VotesImmutable ==
    [][\A i \in VoteIds : Len(votes') >= i /\ votes'[i] = votes[i]]_vars

\* a vote is in the table although the row of its user has been deleted
C8_Witness ==
    \E i \in VoteIds : votes[i].user_id \notin DOMAIN users

\* the targets a vote is associated with
candidate_has_votes(c) == \E i \in VoteIds : votes[i].candidate_id = c

election_has_votes(e) == \E i \in VoteIds : votes[i].election_id = e

party_has_votes(p) ==
    \E c \in DOMAIN candidates : candidates[c].party_id = p /\ candidate_has_votes(c)

\* C9: delete_candidate, delete_election and delete_political_party are
\* answered with a failure, and the row stays, whenever a vote is associated
\* with the target: a vote for the candidate, a vote in the election, a vote
\* for a candidate affiliated with the party.
C9_DeleteWithVotesRejected ==
    /\ [](\A tok \in Tokens :
            /\ \A c \in DOMAIN candidates :
                  candidate_has_votes(c) => ~delete_candidate_response(tok, c).status
            /\ \A e \in DOMAIN elections :
                  election_has_votes(e) => ~delete_election_response(tok, e).status
            /\ \A p \in parties :
                  party_has_votes(p) => ~delete_political_party_response(tok, p).status)
    /\ [][ /\ \A c \in DOMAIN candidates : candidate_has_votes(c) => c \in DOMAIN candidates'
           /\ \A e \in DOMAIN elections : election_has_votes(e) => e \in DOMAIN elections'
           /\ \A p \in parties : party_has_votes(p) => p \in parties' ]_vars

\* a party has an affiliated candidate with a vote
C9_Witness ==
    \E p \in parties : party_has_votes(p)

\* the answers of the endpoints behind Depends(get_current_admin) to caller tok
AdminGatedResponses(tok) ==
    {update_user_profile_response(tok, u, f.nin, f.email, f.state_of_residence,
                                  f.is_active) :
        u \in UserIds,
        f \in ProfileUpdates \cup IdentityUpdates \cup ProfileUpdatesRefusedLate}
    \cup {update_user_status_response(tok, u, a) : u \in UserIds, a \in BOOLEAN}
    \cup {admin_read_response(tok), create_political_party_response(tok)}
    \cup {delete_political_party_response(tok, p) : p \in PartyIds}
    \cup {create_candidate_response(tok, u, p, q) :
             u \in UserIds, p \in PartyIds, q \in PositionIds}
    \cup {update_candidate_response(tok, c, f.party_id, f.position_id) :
             c \in CandidateIds, f \in CandidateUpdates \cup CandidateUpdatesRefusedLate}
    \cup {delete_candidate_response(tok, c) : c \in CandidateIds}
    \cup {admin_create_election_response(tok, t, st, TRUE, d[1], d[2]) :
             t \in ElectionType, st \in State \cup {NoState}, d \in ElectionDates}
    \cup {api_create_election_response(tok, t, st, FALSE, d[1], d[2]) :
             t \in ElectionType, st \in State \cup {NoState}, d \in ElectionDates}
    \cup {update_election_response(tok, e, f.election_type, f.state, f.is_active,
                                   f.start_date, f.end_date) :
             e \in ElectionIds, f \in ElectionUpdates \cup ElectionUpdatesRefusedLate}
    \cup {delete_election_response(tok, e) : e \in ElectionIds}
    \cup {admin_create_position_response(tok, e) : e \in ElectionIds}
    \cup {api_create_position_response(tok, e) : e \in ElectionIds}
    \cup {update_position_response(tok, q, e) : q \in PositionIds, e \in ElectionIds}
    \cup {delete_position_response(tok, q) : q \in PositionIds}

\* the answers of the endpoints behind Depends(get_current_super_admin)
SuperAdminGatedResponses(tok) ==
    {update_user_role_response(tok, u, role) : u \in UserIds, role \in UserRole}
    \cup {delete_user_response(tok, u) : u \in UserIds}

\* C10: every admin-gated endpoint answers a caller whose stored role is user
\* with 403 and changes nothing; update_user_role and delete_user answer a
\* caller whose stored role is user or admin with 403 and change nothing;
\* a caller whose role is in the required set is not answered with 403.
C10_RoleGate ==
    [](\A tok \in DOMAIN users :
        /\ \A resp \in AdminGatedResponses(tok) :
              resp.code = 403 <=> users[tok].role = USER
        /\ \A resp \in SuperAdminGatedResponses(tok) :
              resp.code = 403 <=> users[tok].role \in {USER, ADMIN}
        /\ users[tok].role = USER => ~ENABLED <<AdminGated(tok)>>_vars
        /\ users[tok].role \in {USER, ADMIN} => ~ENABLED <<SuperAdminGated(tok)>>_vars)

\* the three roles are stored: a user, an admin and a super admin can call
C10_Witness ==
    \A role \in UserRole : \E tok \in DOMAIN users : users[tok].role = role

\* the requests to update_user_profile that deactivate the account, alone or
\* with other fields
SelfDeactivations ==
    {[nin |-> n, email |-> m, state_of_residence |-> st, is_active |-> "False"] :
        n \in {"None", "n3"}, m \in {"None", "e3"}, st \in {NoState, LAGOS}}

\* C11: update_user_role and delete_user on the caller's own id, and
\* update_user_status and update_user_profile with is_active false on the
\* caller's own id, are answered with a failure and change nothing, for every
\* caller: the caller's role, is_active flag and row stay as they are.
C11_NoSelfModification ==
    [](\A tok \in Tokens :
        /\ \A role \in UserRole :
              /\ ~update_user_role_response(tok, tok, role).status
              /\ ~ENABLED <<update_user_role(tok, tok, role)>>_vars
        /\ ~delete_user_response(tok, tok).status
        /\ ~ENABLED <<delete_user(tok, tok)>>_vars
        /\ ~update_user_status_response(tok, tok, FALSE).status
        /\ ~ENABLED <<update_user_status(tok, tok, FALSE)>>_vars
        /\ \A f \in SelfDeactivations :
              /\ ~update_user_profile_response(tok, tok, f.nin, f.email,
                                               f.state_of_residence, f.is_active).status
              /\ ~ENABLED <<update_user_profile(tok, tok, f.nin, f.email,
                                                f.state_of_residence, f.is_active)>>_vars)

\* an admin who is not the seeded super admin is refused the deactivation of
\* its own account by the check of its id, through both endpoints
C11_Witness ==
    \E tok \in DOMAIN users :
        /\ users[tok].role = ADMIN
        /\ update_user_status_response(tok, tok, FALSE)
               = Failure("Cannot deactivate your own account")
        /\ update_user_profile_response(tok, tok, "None", "None", NoState, "False")
               = Failure("Cannot deactivate your own account")

\* a step of an endpoint whose answer to the request is a failure
ReportsFailure ==
    \/ \E r \in pending :
          cast_vote_commit(r) /\ ~cast_vote_commit_response(new_vote(r)).status
    \/ \E role \in UserRole, st \in State, m \in Emails, n \in Nins, pw \in Passwords :
          register_user(role, st, m, n, pw)
          /\ ~register_user_response(role, st, m, n, pw).status
    \/ \E tok \in Tokens :
          \/ \E u \in UserIds,
                f \in ProfileUpdates \cup IdentityUpdates \cup ProfileUpdatesRefusedLate :
                update_user_profile(tok, u, f.nin, f.email, f.state_of_residence, f.is_active)
                /\ ~update_user_profile_response(tok, u, f.nin, f.email,
                                                 f.state_of_residence, f.is_active).status
          \/ \E u \in UserIds, role \in UserRole :
                update_user_role(tok, u, role) /\ ~update_user_role_response(tok, u, role).status
          \/ \E u \in UserIds, a \in BOOLEAN :
                update_user_status(tok, u, a) /\ ~update_user_status_response(tok, u, a).status
          \/ \E u \in UserIds : delete_user(tok, u) /\ ~delete_user_response(tok, u).status
          \/ create_political_party(tok) /\ ~create_political_party_response(tok).status
          \/ \E p \in PartyIds :
                delete_political_party(tok, p)
                /\ ~delete_political_party_response(tok, p).status
          \/ \E u \in UserIds, p \in PartyIds, q \in PositionIds :
                create_candidate(tok, u, p, q) /\ ~create_candidate_response(tok, u, p, q).status
          \/ \E c \in CandidateIds, f \in CandidateUpdates \cup CandidateUpdatesRefusedLate :
                update_candidate(tok, c, f.party_id, f.position_id)
                /\ ~update_candidate_response(tok, c, f.party_id, f.position_id).status
          \/ \E c \in CandidateIds :
                delete_candidate(tok, c) /\ ~delete_candidate_response(tok, c).status
          \/ \E t \in ElectionType, st \in State \cup {NoState}, d \in ElectionDates :
                admin_create_election(tok, t, st, TRUE, d[1], d[2])
                /\ ~admin_create_election_response(tok, t, st, TRUE, d[1], d[2]).status
          \/ \E t \in ElectionType, st \in State \cup {NoState}, d \in ElectionDates :
                api_create_election(tok, t, st, FALSE, d[1], d[2])
                /\ ~api_create_election_response(tok, t, st, FALSE, d[1], d[2]).status
          \/ \E e \in ElectionIds, f \in ElectionUpdates \cup ElectionUpdatesRefusedLate :
                update_election(tok, e, f.election_type, f.state, f.is_active,
                                f.start_date, f.end_date)
                /\ ~update_election_response(tok, e, f.election_type, f.state, f.is_active,
                                             f.start_date, f.end_date).status
          \/ \E e \in ElectionIds :
                delete_election(tok, e) /\ ~delete_election_response(tok, e).status
          \/ \E e \in ElectionIds :
                admin_create_position(tok, e) /\ ~admin_create_position_response(tok, e).status
          \/ \E e \in ElectionIds :
                api_create_position(tok, e) /\ ~api_create_position_response(tok, e).status
          \/ \E q \in PositionIds, e \in ElectionIds :
                update_position(tok, q, e) /\ ~update_position_response(tok, q, e).status
          \/ \E q \in PositionIds :
                delete_position(tok, q) /\ ~delete_position_response(tok, q).status

\* C12 (as stated): whenever an endpoint answers a request with a failure, the
\* stored tables are exactly what they were before the request.
C12_FailureChangesNothing ==
    [][ReportsFailure => UNCHANGED db]_vars

\* a candidate carries a party: the only request that assigns one is
\* update_candidate, whose answer is a failure
C12_Witness ==
    \E c \in DOMAIN candidates : candidates[c].party_id # 0

\* the answers of cast_vote to caller tok that are given before the insert
CastVoteResponses(tok) ==
    {cast_vote_checks(tok, e, c) : e \in ElectionIds, c \in CandidateIds}

\* C13 (as stated): every request that fails, on every endpoint and for every
\* cause, is answered with the envelope: status false, data null and an error
\* string, never with a body of another shape.
C13_UniformEnvelope ==
    \A tok \in Tokens :
        \A resp \in AdminGatedResponses(tok) \cup SuperAdminGatedResponses(tok)
                        \cup CastVoteResponses(tok) :
            ~resp.status => (resp.envelope /\ resp.error # NoError)

\* a deactivated account calls cast_vote and is answered by the dependency
\* with 400 and the body {"detail": "Inactive user"}
C13_Witness ==
    \E tok \in DOMAIN users :
        /\ ~users[tok].is_active
        /\ \E resp \in CastVoteResponses(tok) :
              resp = HTTPException(400, "Inactive user") /\ ~resp.envelope

\* the callers that pass Depends(get_current_admin)
AdminCallers == {tok \in Tokens : get_current_admin(tok) = Success}

\* C14: in every reachable state, whatever the interleaving of registrations
\* and profile updates, no two users have the same email and no two users have
\* the same NIN; a registration or a profile update that would give a user the
\* email or the NIN of another is answered with a failure, by the handler's
\* lookup or by the constraint at its commit, and changes nothing.
C14_UniqueEmailAndNin ==
    /\ [](\A u, w \in DOMAIN users :
            (users[u].email = users[w].email \/ users[u].nin = users[w].nin) => u = w)
    /\ [](\A m \in Emails, n \in Nins :
            /\ (\E u \in DOMAIN users : users[u].email = m \/ users[u].nin = n)
                  => \A role \in UserRole :
                        /\ ~register_user_response(role, LAGOS, m, n, "pw1").status
                        /\ ~ENABLED <<register_user_begin(role, LAGOS, m, n, "pw1")>>_vars
            /\ \A tok \in AdminCallers, u \in DOMAIN users :
                  /\ email_of_another(m, u)
                        => /\ ~update_user_profile_response(tok, u, "None", m,
                                                            NoState, "None").status
                           /\ ~ENABLED <<update_user_profile_begin(tok, u, "None", m,
                                                                   NoState, "None")>>_vars
                  /\ nin_of_another(n, u)
                        => /\ ~update_user_profile_response(tok, u, n, "None",
                                                            NoState, "None").status
                           /\ ~ENABLED <<update_user_profile_begin(tok, u, n, "None",
                                                                   NoState, "None")>>_vars)
    /\ [][\A r \in inflight \ inflight' :
            ( /\ r.op # "delete"
              /\ \E u \in DOMAIN users \ {r.user_id} :
                    \/ r.email # "None" /\ users[u].email = r.email
                    \/ r.nin # "None" /\ users[u].nin = r.nin )
            => (~account_commit_response(r).status /\ UNCHANGED db)]_vars

\* a request that passed the handler's lookup is about to commit an email or a
\* NIN that another user has been given since
C14_Witness ==
    \E r \in inflight :
        /\ r.op # "delete"
        /\ \E u \in DOMAIN users \ {r.user_id} :
              \/ r.email # "None" /\ users[u].email = r.email
              \/ r.nin # "None" /\ users[u].nin = r.nin

\* C15 (as stated): in every reachable state every Vote row refers to a user,
\* a candidate and an election that exist.
C15_VotesReferenceRows ==
    \A i \in VoteIds :
        /\ votes[i].user_id \in DOMAIN users
        /\ votes[i].candidate_id \in DOMAIN candidates
        /\ votes[i].election_id \in DOMAIN elections

\* where the database enforces the foreign keys of the votes table, the rows
\* a vote refers to exist
C15_HoldsWhereEnforced == fk_enforced => C15_VotesReferenceRows

\* the database does not enforce foreign keys, and a vote whose candidate and
\* election exist refers to a user whose row has been deleted
C15_Witness ==
    /\ ~fk_enforced
    /\ \E i \in VoteIds :
          /\ votes[i].user_id \notin DOMAIN users
          /\ votes[i].candidate_id \in DOMAIN candidates
          /\ votes[i].election_id \in DOMAIN elections

\* C16 (as stated): in every reachable state every Position refers to an
\* election that exists and every Candidate to a position that exists.
C16_HierarchyReferences ==
    /\ \A q \in DOMAIN positions : positions[q].election_id \in DOMAIN elections
    /\ \A c \in DOMAIN candidates : candidates[c].position_id \in DOMAIN positions

\* where the database enforces the foreign keys, the hierarchy is intact
C16_HoldsWhereEnforced == fk_enforced => C16_HierarchyReferences

\* the database does not enforce foreign keys, and a position is stored for
\* an election id that was never an election's
C16_Witness ==
    /\ ~fk_enforced
    /\ \E q \in DOMAIN positions : positions[q].election_id \notin 1..(next_id.elections - 1)

\* C17: reset_password changes a user's stored password only in a step that
\* consumes an unused, unexpired OTP issued by forgot_password for that user's
\* email; no other credential, such as the access token of a login, changes it
C17_ResetNeedsOtp ==
    [][\A u \in DOMAIN users :
          (u \in DOMAIN users' /\ users'[u].hashed_password # users[u].hashed_password)
              => \E code \in OtpCodes : \E i \in verify_otp(users[u].email, code) :
                    otps'[i].is_used]_vars

\* a password was reset although forgot_password never issued a code
C17_Witness ==
    /\ otps = <<>>
    /\ \E u \in DOMAIN users : users[u].hashed_password = get_password_hash("pw2")

\* the candidates listed in an entry of party_results
listed(entry) == {entry.candidates[j].candidate : j \in 1..Len(entry.candidates)}

\* C18: get_election_results on an existing election puts the candidates
\* without a party in one 'Independent' entry (party id 0) and every other
\* candidate in the one entry of its party; an entry's total_votes is the sum
\* of the vote counts of its candidates; its percentage is
\* total_votes * 100 / the election's total_votes, or 0 when the election has
\* no votes; and the request changes no stored data
C18_Results ==
    /\ [](\A e \in DOMAIN elections :
            LET data == results_data(e)
                entries == data.party_results
            IN /\ get_election_results_response(e) = Success
               /\ data.total_votes = votes_in_election(e)
               /\ \A c \in candidates_of_election(e) :
                     \E i \in 1..Len(entries) : c \in listed(entries[i])
               /\ \A i \in 1..Len(entries) :
                     /\ listed(entries[i]) =
                           {c \in candidates_of_election(e) :
                               candidates[c].party_id = entries[i].party_id}
                     /\ Len(entries[i].candidates) = Cardinality(listed(entries[i]))
                     /\ \A j \in 1..Len(entries[i].candidates) :
                           entries[i].candidates[j].votes =
                               votes_for_candidate(entries[i].candidates[j].candidate)
                     /\ entries[i].total_votes =
                           Cardinality({v \in VoteIds :
                               votes[v].candidate_id \in listed(entries[i])})
                     /\ IF votes_in_election(e) = 0
                        THEN entries[i].percentage.num = 0
                        ELSE entries[i].percentage.num * votes_in_election(e) =
                                 entries[i].total_votes * 100 * entries[i].percentage.den)
    /\ [][(\E e \in ElectionIds : get_election_results(e)) => UNCHANGED db]_vars

\* the first election's results have an 'Independent' entry with a vote and a
\* party's entry with two candidates that each have a vote
C18_Witness ==
    LET entries == results_data(1).party_results
    IN /\ \E i \in 1..Len(entries) :
             entries[i].party_id = 0 /\ entries[i].total_votes > 0
       /\ \E i \in 1..Len(entries) :
             /\ entries[i].party_id # 0
             /\ Len(entries[i].candidates) = 2
             /\ \A j \in 1..2 : entries[i].candidates[j].votes > 0

C20_SuperAdminRemains ==
    \E u \in DOMAIN users : users[u].role = SUPER_ADMIN

\* C20 where every request runs from its checks to its commit before the next
\* starts (Spec): the number of super admins never reaches zero
C20_HoldsOneAtATime ==
    Cardinality({u \in DOMAIN users : users[u].role = SUPER_ADMIN}) >= 1

\* no super admin is left, and both of the initial accounts are still stored:
\* each was demoted by the other
C20_Witness ==
    /\ DOMAIN users = {1, 2}
    /\ \A u \in DOMAIN users : users[u].role # SUPER_ADMIN

\* C21: no vote is committed for an election that is inactive at the moment
\* of the commit: a cast_vote request that is in flight when update_election
\* deactivates its election does not record its vote afterwards
C21_NoVoteForInactiveElection ==
    [][Len(votes') > Len(votes)
          => active_election(votes'[Len(votes')].election_id)]_vars

\* a cast_vote request has passed its checks, its election has been
\* deactivated since, and its insert meets no constraint that refuses it
C21_Witness ==
    \E r \in pending :
        /\ r.election_id \in DOMAIN elections
        /\ ~elections[r.election_id].is_active
        /\ cast_vote_commit_response(new_vote(r)) = Success

\* C22: while an account's is_active is false, a request authenticated as
\* that account (a vote, a profile request, an admin-gated or super-admin-gated
\* request, with a token of before the deactivation too) is rejected and
\* changes no state
C22_InactiveChangesNothing ==
    [][\A tok \in DOMAIN users :
          (/\ ~users[tok].is_active
           /\ \/ AdminGated(tok)
              \/ SuperAdminGated(tok)
              \/ \E e \in ElectionIds, c \in CandidateIds : cast_vote_begin(tok, e, c))
              => UNCHANGED <<db, pending>>]_vars

\* one request after the second account, an admin, was deactivated, the first
\* account is deactivated: the handlers refuse to deactivate the caller's own
\* account, so the request was made with the token of the second
C22_Witness ==
    /\ ops = 1
    /\ DOMAIN users = {1, 2}
    /\ users[2].role = ADMIN
    /\ ~users[2].is_active
    /\ ~users[1].is_active

\* C23: in every reachable state the position of each vote's candidate belongs
\* to the vote's election, also after update_candidate has changed the
\* candidate's position_id or update_position the position's election_id
C23_VotedCandidateInElection ==
    \A i \in VoteIds :
        (/\ votes[i].candidate_id \in DOMAIN candidates
         /\ candidates[votes[i].candidate_id].position_id \in DOMAIN positions)
            => candidate_in_election(votes[i].candidate_id, votes[i].election_id)

\* a vote is stored for a candidate whose position is now in another election
\* that exists
C23_Witness ==
    \E i \in VoteIds :
        /\ votes[i].candidate_id \in DOMAIN candidates
        /\ candidates[votes[i].candidate_id].position_id \in DOMAIN positions
        /\ positions[candidates[votes[i].candidate_id].position_id].election_id
               \in DOMAIN elections \ {votes[i].election_id}
        /\ pending = {}

\* the sum of total_votes over the first k entries of party_results
RECURSIVE entries_total(_, _)
entries_total(entries, k) ==
    IF k = 0 THEN 0 ELSE entries[k].total_votes + entries_total(entries, k - 1)

\* C25: in every reachable state the total_votes of the entries of
\* get_election_results, 'Independent' included, add up to the election's
\* total_votes, so that no share exceeds 100% and the shares of an election
\* with votes add up to 100%
C25_EntriesSumToTotal ==
    \A e \in DOMAIN elections :
        LET data == results_data(e)
        IN /\ entries_total(data.party_results, Len(data.party_results)) = data.total_votes
           /\ \A i \in 1..Len(data.party_results) :
                 data.party_results[i].percentage.num
                     <= 100 * data.party_results[i].percentage.den

\* an election without votes whose results list a candidate with a vote: the
\* candidate exists and was moved to the election after the vote
C25_Witness ==
    \E e \in DOMAIN elections :
        /\ results_data(e).total_votes = 0
        /\ \E i \in 1..Len(results_data(e).party_results) :
              results_data(e).party_results[i].total_votes > 0
        /\ pending = {}

\* C24: the role gate decides on the role stored at the time of the request,
\* not on anything fixed at login: once update_user_role has made a user's
\* role user, each admin-gated request with that user's token is answered
\* with 403 and changes nothing, and once it has made the role admin or
\* super_admin the gate lets the next request with the same token through
C24_GateReadsStoredRole ==
    /\ [][\A u \in DOMAIN users \cap DOMAIN users' :
             (users[u].role # USER /\ users'[u].role = USER)
                 => (\A resp \in AdminGatedResponses(u) \cup SuperAdminGatedResponses(u) :
                        resp.code = 403)']_vars
    /\ [][\A u \in DOMAIN users \cap DOMAIN users' :
             (users[u].role = USER /\ users'[u].role # USER)
                 => (/\ get_current_admin(u) = Success
                     /\ \A resp \in AdminGatedResponses(u) : resp.code # 403
                     /\ create_political_party_response(u) = Success)']_vars
    /\ [][\A tok \in DOMAIN users :
             (users[tok].role = USER /\ (AdminGated(tok) \/ SuperAdminGated(tok)))
                 => UNCHANGED db]_vars

\* two requests after setup the second account, a user at first, is an admin
\* and the first account is deactivated: no handler deactivates its caller, so
\* the second account was promoted and its next request passed the gate
C24_Witness ==
    /\ ops = 2
    /\ DOMAIN users = {1, 2}
    /\ users[2].role = ADMIN
    /\ users[1].role = SUPER_ADMIN
    /\ ~users[1].is_active

\* the rows of an email that are not used
unused_otps(email) == {i \in 1..Len(otps) : otps[i].email = email /\ ~otps[i].is_used}

\* C26: verify_otp returns true only for a row of that email and code that is
\* unused and unexpired, and marks it used, so that a code is accepted once at
\* most; create_otp_record marks the email's earlier rows used before it adds
\* the new one; after any sequence of the two calls an email has one unused
\* row at most, and a row that was superseded or used is never accepted
C26_OtpOnce ==
    /\ [](\A m \in Emails : Cardinality(unused_otps(m)) <= 1)
    /\ [](\A m \in Emails, code \in OtpCodes :
            verify_otp_returns(m, code)
                <=> \E i \in 1..Len(otps) :
                       /\ otps[i] = [email |-> m, otp_code |-> code,
                                     is_used |-> FALSE, expired |-> FALSE])
    /\ [][\A m \in Emails, code \in OtpCodes :
             (verify_otp_commit(m, code) /\ verify_otp_returns(m, code))
                 => /\ \E i \in verify_otp(m, code) :
                          otps' = [otps EXCEPT ![i].is_used = TRUE]
                    /\ ~verify_otp_returns(m, code)']_vars
    /\ [][\A m \in Emails, code \in OtpCodes :
             create_otp_record_commit(m, code)
                 => /\ Len(otps') = Len(otps) + 1
                    /\ otps'[Len(otps')] = OTP(m, code)
                    /\ \A i \in 1..Len(otps) :
                          /\ otps[i].email = m => otps'[i].is_used
                          /\ otps[i].email # m => otps'[i] = otps[i]]_vars
    /\ [][\A i \in 1..Len(otps) :
             /\ otps[i].is_used => otps'[i].is_used
             /\ otps[i].expired => otps'[i].expired
             /\ (otps[i].is_used \/ otps[i].expired)
                   => \A code \in OtpCodes : i \notin verify_otp(otps[i].email, code)']_vars

\* a code was issued twice for an email and the second row, which only
\* verify_otp marks, is used: the code was accepted once and is not accepted
\* again, although neither row has expired
C26_Witness ==
    \E m \in Emails, code \in OtpCodes :
        /\ Len(otps) = 2
        /\ \A i \in 1..2 : otps[i] = [email |-> m, otp_code |-> code,
                                      is_used |-> TRUE, expired |-> FALSE]
        /\ ~verify_otp_returns(m, code)

C28_ForgotPasswordTellsNothing ==
    [][\A m \in Emails :
          ((existing_user(m, "None") = 0) # (existing_user(m, "None")' = 0))
              => forgot_password_body(m)' = forgot_password_body(m)]_vars

\* an email that is registered and one that is not, whose answers differ in
\* nothing but the email they repeat and the message
C28_Witness ==
    \E m1 \in Emails, m2 \in Emails :
        /\ existing_user(m1, "None") # 0
        /\ existing_user(m2, "None") = 0
        /\ forgot_password_body(m1).message # forgot_password_body(m2).message
        /\ forgot_password_body(m1).status = forgot_password_body(m2).status
        /\ forgot_password_body(m1).error = forgot_password_body(m2).error
        /\ forgot_password_body(m1).data.message = forgot_password_body(m2).data.message
        /\ ops = 1
        /\ m1 = "e3"

\* C29: in every reachable state every stored election of type state or local
\* has a state set, whichever of the create and update routes stored it
C29_StateOrLocalHasState ==
    \A e \in DOMAIN elections :
        elections[e].election_type \in {ET_STATE, ET_LOCAL}
            => elections[e].state # NoState

\* POST /api/elections refuses a state or local election without a state for
\* a caller who passes the admin gate, and an election of that kind is stored
\* without a state all the same
C29_Witness ==
    /\ \E tok \in Tokens :
          api_create_election_response(tok, ET_LOCAL, NoState, FALSE, 1, 2)
              = Failure("State is required for state and local elections")
    /\ \E e \in DOMAIN elections :
          /\ elections[e].election_type \in {ET_STATE, ET_LOCAL}
          /\ elections[e].state = NoState

\* C30: in every reachable state every stored election that has both dates
\* has its start_date before its end_date, whichever of the create and update
\* routes stored it
C30_StartBeforeEnd ==
    \A e \in DOMAIN elections :
        (elections[e].start_date # NoDate /\ elections[e].end_date # NoDate)
            => elections[e].start_date < elections[e].end_date

\* POST /admin/elections refuses dates out of order for a caller who passes
\* the admin gate, and an election is stored with such dates all the same
C30_Witness ==
    /\ \E tok \in Tokens :
          admin_create_election_response(tok, ET_FEDERAL, NoState, TRUE, 2, 1)
              = Failure("End date must be after start date")
    /\ \E e \in DOMAIN elections :
          dates_out_of_order(elections[e].start_date, elections[e].end_date)

====
